---- MODULE Spec2Model ----
(***************************************************************************)
(* State-machine model of libraries/sceneGraph/SceneGraph.js: the registry *)
(* of scene nodes, the heap of SceneNode objects it points into, and the   *)
(* list of update callbacks.  SceneNode objects are heap cells addressed   *)
(* by reference (an index into `nodes`), because the code compares and     *)
(* links node objects, not ids: a node deleted from the registry lives on  *)
(* as long as another node points at it.                                   *)
(***************************************************************************)
EXTENDS Integers, Sequences, FiniteSets, TLC

\* ---------------------------------------------------------------- bounds
MaxNodes == 6        \* SceneNode objects ever allocated (root included)
MaxCallbacks == 2    \* callbacks registered with onUpdate
MaxSteps == 4        \* operations called on the graph in one behaviour

\* ------------------------------------------------------------ JS values
Undefined == "undefined"   \* a missing argument / missing registry entry
NoRef == 0                 \* a null or undefined object reference
NoMatrix == <<>>           \* a matrix argument left undefined

\* ------------------------------------------------------------- matrices
\* A transform is modelled in the affine group of the line over Z_5:
\* <<a, b>> stands for x |-> a*x + b.  The group is finite and not
\* commutative, so the order of a product along an ancestor chain matters.
Identity == <<1, 0>>
Multiply(m1, m2) == <<(m1[1] * m2[1]) % 5, (m1[1] * m2[2] + m1[2]) % 5>>
RotateXMatrix == <<4, 0>>        \* diag(1,-1,1,1): the reflection x |-> -x
GroundPlaneRotationX == <<3, 0>> \* rotation by -pi/2: an element of order 4
Translate1 == <<1, 1>>           \* a translation by one unit
Matrices == {Translate1}

\* ------------------------------------------------------------------ ids
ROOT == "ROOT"
ObjectIds == {"A", "B"}
FramePaths == {<<"A", "F">>}
NodePaths == {<<"A", "F", "N">>}

\* utilities.getUuid: the key of the most specific segment of a path.
getUuid(objectId, frameId, nodeId) ==
    IF frameId = Undefined THEN objectId
    ELSE IF nodeId = Undefined THEN objectId \o frameId
    ELSE objectId \o frameId \o nodeId

RotateXId(id) == id \o "rotateX"

\* ------------------------------------------------------------ SceneNode
\* new SceneNode(id): no parent, no children, identity matrices, stale.
SceneNode(id) ==
    [id |-> id, parent |-> NoRef, children |-> <<>>,
     localMatrix |-> Identity, worldMatrix |-> Identity, stale |-> TRUE,
     deactivated |-> FALSE, needsRotateX |-> FALSE,
     linkedVehicle |-> Undefined, pose |-> <<>>]

\* children.indexOf(x) / children.splice(index, 1): drop the first x.
RECURSIVE RemoveFirst(_, _)
RemoveFirst(s, x) ==
    IF s = <<>> THEN <<>>
    ELSE IF Head(s) = x THEN Tail(s)
    ELSE <<Head(s)>> \o RemoveFirst(Tail(s), x)

Range(s) == {s[i] : i \in DOMAIN s}

\* The nodes of the subtree of n: n and all that its children lists reach.
RECURSIVE Reach(_, _, _)
Reach(ns, frontier, seen) ==
    IF frontier \subseteq seen THEN seen
    ELSE LET new == frontier \ seen
         IN Reach(ns, UNION {Range(ns[k].children) : k \in new}, seen \cup new)

Subtree(ns, n) == Reach(ns, {n}, {})

\* Marks n and its entire subtree stale.
RECURSIVE MarkAll(_, _)
MarkAll(ns, set) ==
    IF set = {} THEN ns
    ELSE LET k == CHOOSE x \in set : TRUE
         IN MarkAll([ns EXCEPT ![k].stale = TRUE], set \ {k})
MarkStale(ns, n) == MarkAll(ns, Subtree(ns, n))

\* SceneNode.setParent(newParent): leave the current parent's children,
\* join newParent's children, set parent, mark the subtree stale.
setParent(ns, n, p) ==
    LET old == ns[n].parent
        ns1 == IF old # NoRef
               THEN [ns EXCEPT ![old].children = RemoveFirst(@, n)] ELSE ns
        ns2 == IF p # NoRef
               THEN [ns1 EXCEPT ![p].children = Append(@, n)] ELSE ns1
    IN MarkStale([ns2 EXCEPT ![n].parent = p], n)

\* SceneNode.setLocalMatrix(m): store m, mark the subtree stale.
setLocalMatrix(ns, n, m) == MarkStale([ns EXCEPT ![n].localMatrix = m], n)

\* SceneNode.updateVehicleXYScale(x, y, scale): the tracked pose summary.
updateVehicleXYScale(ns, n, x, y, scale) == [ns EXCEPT ![n].pose = <<x, y, scale>>]

\* SceneNode.updateWorldMatrix(): return at once unless stale; otherwise
\* worldMatrix = parent.worldMatrix o localMatrix (identity for no parent),
\* clear stale, then call every child in order.
RECURSIVE updateWorldMatrix(_, _)
RECURSIVE updateChildren(_, _, _)
updateWorldMatrix(ns, n) ==
    IF ~ns[n].stale THEN ns
    ELSE LET pw == IF ns[n].parent = NoRef THEN Identity
                   ELSE ns[ns[n].parent].worldMatrix
             ns1 == [ns EXCEPT ![n].worldMatrix = Multiply(pw, ns[n].localMatrix),
                               ![n].stale = FALSE]
         IN updateChildren(ns1, ns1[n].children, 1)
updateChildren(ns, kids, i) ==
    IF i > Len(kids) THEN ns
    ELSE updateChildren(updateWorldMatrix(ns, kids[i]), kids, i + 1)

\* The ids of a list of nodes.
RECURSIVE IdsOf(_, _)
IdsOf(ns, refs) ==
    IF refs = <<>> THEN <<>> ELSE <<ns[Head(refs)].id>> \o IdsOf(ns, Tail(refs))

\* SceneNode.getSerializableCopy(): the record of one node in a snapshot,
\* with the parent and the children named by id.
nodeSerializableCopy(ns, n) ==
    [localMatrix |-> ns[n].localMatrix,
     parent |-> IF ns[n].parent = NoRef THEN Undefined ELSE ns[ns[n].parent].id,
     children |-> IdsOf(ns, ns[n].children),
     deactivated |-> ns[n].deactivated, needsRotateX |-> ns[n].needsRotateX,
     linkedVehicle |-> ns[n].linkedVehicle]

\* ----------------------------------------------------------- SceneGraph
\* A graph value is the registry `graph` (id -> node reference) with the
\* heap `nodes` it points into; `fired` counts triggerUpdateCallbacks calls
\* and `seen` is the graph value the callbacks are invoked on: every method
\* that triggers them does so in its last statement.
rootNode == 1

Lookup(g, id) == IF id \in DOMAIN g THEN g[id] ELSE NoRef

Result(g, ns, fired) ==
    [graph |-> g, nodes |-> ns, fired |-> fired, seen |-> <<g, ns>>]

\* constructor: the registry holds the root node only.
NewSceneGraph == Result(ROOT :> rootNode, <<SceneNode(ROOT)>>, 0)

\* As FetchOrCreate, but without the lookup: a new node is registered under
\* uuid even when the registry holds one.
FetchOrCreate_AlwaysNew(g, ns, uuid) ==
    [graph |-> [k \in DOMAIN g \cup {uuid} |-> IF k = uuid THEN Len(ns) + 1 ELSE g[k]],
     nodes |-> Append(ns, SceneNode(uuid)), ref |-> Len(ns) + 1]

\* The lookup-or-create preamble of addObject, addFrame, addNode and
\* addRotateX: the registered node of uuid, or a new one registered now.
FetchOrCreate(g, ns, uuid) ==
    IF uuid \in DOMAIN g
    THEN [graph |-> g, nodes |-> ns, ref |-> g[uuid]]
    ELSE [graph |-> g @@ (uuid :> Len(ns) + 1),
          nodes |-> Append(ns, SceneNode(uuid)), ref |-> Len(ns) + 1]

addRotateX(g, ns, parentSceneNode, groundPlaneVariation) ==
    LET ns1 == [ns EXCEPT ![parentSceneNode].needsRotateX = TRUE]
        s == FetchOrCreate(g, ns1, RotateXId(ns[parentSceneNode].id))
        ns2 == setParent(s.nodes, s.ref, parentSceneNode)
        m == IF groundPlaneVariation THEN GroundPlaneRotationX ELSE RotateXMatrix
    IN Result(s.graph, setLocalMatrix(ns2, s.ref, m), 0)

\* As addObject, with triggerUpdateCallbacks() called before the
\* `if (needsRotateX)` block instead of after it.
addObject_TriggersBeforeRotateX(g, ns, objectId, initialLocalMatrix, needsRotateX) ==
    LET s == FetchOrCreate(g, ns, getUuid(objectId, Undefined, Undefined))
        ns1 == setParent(s.nodes, s.ref, rootNode)
        ns2 == IF initialLocalMatrix # NoMatrix
               THEN setLocalMatrix(ns1, s.ref, initialLocalMatrix) ELSE ns1
        r == IF needsRotateX THEN addRotateX(s.graph, ns2, s.ref, FALSE)
             ELSE Result(s.graph, ns2, 0)
    IN [graph |-> r.graph, nodes |-> r.nodes, fired |-> 1, seen |-> <<s.graph, ns2>>]

addObject(g, ns, objectId, initialLocalMatrix, needsRotateX) ==
    LET s == FetchOrCreate(g, ns, getUuid(objectId, Undefined, Undefined))
        ns1 == setParent(s.nodes, s.ref, rootNode)
        ns2 == IF initialLocalMatrix # NoMatrix
               THEN setLocalMatrix(ns1, s.ref, initialLocalMatrix) ELSE ns1
        r == IF needsRotateX THEN addRotateX(s.graph, ns2, s.ref, FALSE)
             ELSE Result(s.graph, ns2, 0)
    IN Result(r.graph, r.nodes, 1)

addFrame(g, ns, objectId, frameId, linkedFrame, initialLocalMatrix) ==
    LET s == FetchOrCreate(g, ns, getUuid(objectId, frameId, Undefined))
        objectUuid == getUuid(objectId, Undefined, Undefined)
        ns1 == IF objectUuid \in DOMAIN s.graph
               THEN IF s.nodes[s.graph[objectUuid]].needsRotateX
                    THEN setParent(s.nodes, s.ref, Lookup(s.graph, RotateXId(objectUuid)))
                    ELSE setParent(s.nodes, s.ref, s.graph[objectUuid])
               ELSE s.nodes
        ns2 == IF linkedFrame # Undefined
               THEN [ns1 EXCEPT ![s.ref].linkedVehicle = linkedFrame] ELSE ns1
        ns3 == IF initialLocalMatrix # NoMatrix
               THEN setLocalMatrix(ns2, s.ref, initialLocalMatrix) ELSE ns2
    IN Result(s.graph, ns3, 1)

addNode(g, ns, objectId, frameId, nodeId, linkedNode, initialLocalMatrix) ==
    LET s == FetchOrCreate(g, ns, getUuid(objectId, frameId, nodeId))
        frameUuid == getUuid(objectId, frameId, Undefined)
        ns1 == IF frameUuid \in DOMAIN s.graph
               THEN setParent(s.nodes, s.ref, s.graph[frameUuid]) ELSE s.nodes
        ns2 == IF linkedNode # Undefined
               THEN [ns1 EXCEPT ![s.ref].linkedVehicle = linkedNode] ELSE ns1
        ns3 == IF initialLocalMatrix # NoMatrix
               THEN setLocalMatrix(ns2, s.ref, initialLocalMatrix) ELSE ns2
    IN Result(s.graph, ns3, 1)

\* delete this.graph[id]
Delete(g, id) == [k \in DOMAIN g \ {id} |-> g[k]]

\* As removeElementAndChildren, with triggerUpdateCallbacks() moved out of
\* the `if (sceneNode)` block.
removeElementAndChildren_AlwaysTriggers(g, ns, id) ==
    IF id \in DOMAIN g
    THEN LET sceneNode == g[id]
             parentNode == ns[sceneNode].parent
             ns1 == IF parentNode # NoRef
                    THEN [ns EXCEPT ![parentNode].children = RemoveFirst(@, sceneNode)]
                    ELSE ns
         IN Result(Delete(g, id), ns1, 1)
    ELSE Result(g, ns, 1)

removeElementAndChildren(g, ns, id) ==
    IF id \in DOMAIN g
    THEN LET sceneNode == g[id]
             parentNode == ns[sceneNode].parent
             ns1 == IF parentNode # NoRef
                    THEN [ns EXCEPT ![parentNode].children = RemoveFirst(@, sceneNode)]
                    ELSE ns
         IN Result(Delete(g, id), ns1, 1)
    ELSE Result(g, ns, 0)

\* As recomputeGraph, followed by triggerUpdateCallbacks().
recomputeGraph_Triggers(g, ns) == Result(g, updateWorldMatrix(ns, rootNode), 1)

recomputeGraph(g, ns) == Result(g, updateWorldMatrix(ns, rootNode), 0)

\* SceneNode.getDistanceTo(other): the distance between the translation
\* components of the two world matrices.
getDistanceTo(ns, a, b) ==
    LET d == ns[a].worldMatrix[2] - ns[b].worldMatrix[2]
    IN IF d < 0 THEN -d ELSE d

\* As getDistanceBetween, with the `nodeA && nodeB` test on nodeA alone: a
\* missing nodeB counts as a node at the origin.
getDistanceBetween_TestsOnlyA(g, ns, keyA, keyB) ==
    LET r == recomputeGraph(g, ns)
        nodeA == Lookup(g, keyA)
        nodeB == Lookup(g, keyB)
    IN [graph |-> r.graph, nodes |-> r.nodes, fired |-> 0, seen |-> r.seen,
        value |-> IF nodeA # NoRef
                  THEN IF nodeB # NoRef THEN getDistanceTo(r.nodes, nodeA, nodeB)
                       ELSE r.nodes[nodeA].worldMatrix[2]
                  ELSE -1]

\* getDistanceBetween: the graph value after the recompute, and the value
\* returned.
getDistanceBetween(g, ns, keyA, keyB) ==
    LET r == recomputeGraph(g, ns)
        nodeA == Lookup(g, keyA)
        nodeB == Lookup(g, keyB)
    IN [graph |-> r.graph, nodes |-> r.nodes, fired |-> 0, seen |-> r.seen,
        value |-> IF nodeA # NoRef /\ nodeB # NoRef
                  THEN getDistanceTo(r.nodes, nodeA, nodeB)
                  ELSE -1]

updateWithPositionData(g, ns, objectId, frameId, nodeId, localMatrix, x, y, scale) ==
    LET id == getUuid(objectId, frameId, nodeId)
    IN IF id \in DOMAIN g
       THEN Result(g, setLocalMatrix(updateVehicleXYScale(ns, g[id], x, y, scale),
                                     g[id], localMatrix), 1)
       ELSE Result(g, ns, 0)

\* As updateObjectWorldId, without the `objectId === worldId` return.
updateObjectWorldId_NoSelfTest(g, ns, objectId, worldId) ==
    LET worldNode == Lookup(g, getUuid(worldId, Undefined, Undefined))
        objectNode == Lookup(g, getUuid(objectId, Undefined, Undefined))
    IN IF objectNode = NoRef \/ worldNode = NoRef THEN Result(g, ns, 0)
       ELSE Result(g, setParent(ns, objectNode, worldNode), 0)

updateObjectWorldId(g, ns, objectId, worldId) ==
    IF objectId = worldId THEN Result(g, ns, 0)
    ELSE LET worldNode == Lookup(g, getUuid(worldId, Undefined, Undefined))
             objectNode == Lookup(g, getUuid(objectId, Undefined, Undefined))
         IN IF objectNode = NoRef \/ worldNode = NoRef THEN Result(g, ns, 0)
            ELSE Result(g, setParent(ns, objectNode, worldNode), 0)

\* As deactivateElement, without the `!node.deactivated` test.
deactivateElement_NoFlagTest(g, ns, id) ==
    IF id \in DOMAIN g
    THEN Result(g, [ns EXCEPT ![g[id]].deactivated = TRUE], 1)
    ELSE Result(g, ns, 0)

deactivateElement(g, ns, id) ==
    IF id \in DOMAIN g /\ ~ns[g[id]].deactivated
    THEN Result(g, [ns EXCEPT ![g[id]].deactivated = TRUE], 1)
    ELSE Result(g, ns, 0)

activateElement(g, ns, id) ==
    IF id \in DOMAIN g /\ ns[g[id]].deactivated
    THEN Result(g, [ns EXCEPT ![g[id]].deactivated = FALSE], 1)
    ELSE Result(g, ns, 0)

\* getSerializableCopy: recompute, then one record per registered id.
getSerializableCopy(g, ns) ==
    LET r == recomputeGraph(g, ns)
    IN [graph |-> g, nodes |-> r.nodes, fired |-> 0,
        copy |-> [key \in DOMAIN g |-> nodeSerializableCopy(r.nodes, g[key])]]

\* First loop of addDataFromSerializableGraph: a placeholder node for every
\* key of data that the registry does not hold; nodesToUpdate collects them.
RECURSIVE AddPlaceholders(_, _, _)
AddPlaceholders(g, ns, keys) ==
    IF keys = {} THEN [graph |-> g, nodes |-> ns]
    ELSE LET key == CHOOSE k \in keys : TRUE
         IN IF key \in DOMAIN g THEN AddPlaceholders(g, ns, keys \ {key})
            ELSE AddPlaceholders(g @@ (key :> Len(ns) + 1),
                                 Append(ns, SceneNode(key)), keys \ {key})

\* SceneNode.initFromSerializedCopy(data, sceneGraph): copies the matrix, the
\* flags and the payload, and resolves parent and children in the registry.
RECURSIVE Resolve(_, _)
Resolve(g, ids) ==
    IF ids = <<>> THEN <<>>
    ELSE (IF Head(ids) \in DOMAIN g THEN <<g[Head(ids)]>> ELSE <<>>)
         \o Resolve(g, Tail(ids))

initFromSerializedCopy(g, ns, n, d) ==
    [ns EXCEPT ![n] = [@ EXCEPT
        !.localMatrix = d.localMatrix,
        !.parent = Lookup(g, d.parent),
        !.children = Resolve(g, d.children),
        !.deactivated = d.deactivated,
        !.needsRotateX = d.needsRotateX,
        !.linkedVehicle = d.linkedVehicle]]

RECURSIVE InitAll(_, _, _, _)
InitAll(g, ns, keys, data) ==
    IF keys = {} THEN ns
    ELSE LET key == CHOOSE k \in keys : TRUE
         IN InitAll(g, initFromSerializedCopy(g, ns, g[key], data[key]),
                    keys \ {key}, data)

\* As addDataFromSerializableGraph, without the `continue` for keys the
\* registry holds: every key of data gets a new node, hydrated from data.
RECURSIVE ReplaceAll(_, _, _)
ReplaceAll(g, ns, keys) ==
    IF keys = {} THEN [graph |-> g, nodes |-> ns]
    ELSE LET key == CHOOSE k \in keys : TRUE
             r == FetchOrCreate(Delete(g, key), ns, key)
         IN ReplaceAll(r.graph, r.nodes, keys \ {key})
addDataFromSerializableGraph_NoSkip(g, ns, data) ==
    LET s == ReplaceAll(g, ns, DOMAIN data)
    IN Result(s.graph, InitAll(s.graph, s.nodes, DOMAIN data, data), 0)

addDataFromSerializableGraph(g, ns, data) ==
    LET nodesToUpdate == DOMAIN data \ DOMAIN g
        s == AddPlaceholders(g, ns, DOMAIN data)
    IN Result(s.graph, InitAll(s.graph, s.nodes, nodesToUpdate, data), 0)

\* Snapshots a peer process can send: the serializable copies of two graphs
\* built by add operations.
Peer1 == addObject(NewSceneGraph.graph, NewSceneGraph.nodes, "B", Translate1, FALSE)
Peer2a == addObject(NewSceneGraph.graph, NewSceneGraph.nodes, "A", NoMatrix, TRUE)
Peer2 == addFrame(Peer2a.graph, Peer2a.nodes, "A", "F", "vehicle", Translate1)
Snapshots == {getSerializableCopy(Peer1.graph, Peer1.nodes).copy,
              getSerializableCopy(Peer2.graph, Peer2.nodes).copy}

\* ---------------------------------------------------------------- state
VARIABLES
    graph,            \* this.graph: id -> node reference
    nodes,            \* the heap of SceneNode objects
    updateCallbacks,  \* this.updateCallbacks, in registration order
    notified,         \* the callbacks the last operation invoked, in order
    lastOp,           \* the last operation called, with its arguments
    twice,            \* the last operation repeated the one before it
    steps,            \* operations called so far
    dest,             \* a second graph, which imports snapshots of this one
    observed,         \* the graph value the last call's callbacks ran on
    returned          \* what the last call returned, if it returns a value

vars == <<graph, nodes, updateCallbacks, notified, lastOp, twice, steps, dest,
          observed, returned>>

Callbacks == {"cb1", "cb2"}
Keys == {ROOT} \cup ObjectIds \cup {RotateXId(o) : o \in ObjectIds}
        \cup {getUuid(p[1], p[2], Undefined) : p \in FramePaths}
        \cup {getUuid(p[1], p[2], p[3]) : p \in NodePaths}
Paths == {<<o, Undefined, Undefined>> : o \in ObjectIds}
         \cup {<<p[1], p[2], Undefined>> : p \in FramePaths} \cup NodePaths
\* (matrix, needsRotateX) argument pairs of addObject
ObjectArgs == {<<NoMatrix, FALSE>>, <<Translate1, TRUE>>}
\* (payload, matrix) argument pairs of addFrame and addNode
LinkedArgs == {<<Undefined, NoMatrix>>, <<"vehicle", Translate1>>}
ToggleIds == ObjectIds
\* (keyA, keyB) argument pairs of getDistanceBetween
DistanceKeys == {<<"A", "B">>, <<"A", "AF">>, <<"AF", "A">>}

Init ==
    /\ graph = NewSceneGraph.graph
    /\ nodes = NewSceneGraph.nodes
    /\ updateCallbacks = <<>>
    /\ notified = <<>>
    /\ lastOp = <<"constructor">>
    /\ twice = FALSE
    /\ steps = 0
    /\ dest = [graph |-> NewSceneGraph.graph, nodes |-> NewSceneGraph.nodes]
    /\ observed = NewSceneGraph.seen
    /\ returned = <<>>

\* triggerUpdateCallbacks, called `fired` times: each call invokes every
\* callback in registration order.
RECURSIVE triggerUpdateCallbacks(_, _)
triggerUpdateCallbacks(cbs, fired) ==
    IF fired = 0 THEN <<>> ELSE cbs \o triggerUpdateCallbacks(cbs, fired - 1)

\* One call of an operation: the graph takes the operation's result.
Call(op, r) ==
    /\ steps < MaxSteps
    /\ Len(r.nodes) <= MaxNodes
    /\ graph' = r.graph
    /\ nodes' = r.nodes
    /\ notified' = triggerUpdateCallbacks(updateCallbacks, r.fired)
    /\ lastOp' = op
    /\ twice' = (op = lastOp)
    /\ steps' = steps + 1
    /\ observed' = r.seen
    /\ returned' = IF "value" \in DOMAIN r THEN <<r.value>> ELSE <<>>
    /\ UNCHANGED <<updateCallbacks, dest>>

AddObject ==
    \E o \in ObjectIds, a \in ObjectArgs :
        Call(<<"addObject", o, a>>, addObject(graph, nodes, o, a[1], a[2]))

AddFrame ==
    \E p \in FramePaths, a \in LinkedArgs :
        Call(<<"addFrame", p, a>>, addFrame(graph, nodes, p[1], p[2], a[1], a[2]))

AddNode ==
    \E p \in NodePaths, a \in LinkedArgs :
        Call(<<"addNode", p, a>>, addNode(graph, nodes, p[1], p[2], p[3], a[1], a[2]))

AddRotateX ==
    \E o \in ObjectIds \cap DOMAIN graph, gp \in BOOLEAN :
        Call(<<"addRotateX", o, gp>>, addRotateX(graph, nodes, graph[o], gp))

RemoveElementAndChildren ==
    \E id \in Keys :
        Call(<<"removeElementAndChildren", id>>, removeElementAndChildren(graph, nodes, id))

RecomputeGraph == Call(<<"recomputeGraph">>, recomputeGraph(graph, nodes))

GetDistanceBetween ==
    \E k \in DistanceKeys :
        Call(<<"getDistanceBetween", k[1], k[2]>>,
             getDistanceBetween(graph, nodes, k[1], k[2]))

UpdateWithPositionData ==
    \E p \in Paths, m \in Matrices :
        Call(<<"updateWithPositionData", p, m>>,
             updateWithPositionData(graph, nodes, p[1], p[2], p[3], m, 1, 1, 1))

UpdateObjectWorldId ==
    \E o \in ObjectIds, w \in ObjectIds :
        Call(<<"updateObjectWorldId", o, w>>, updateObjectWorldId(graph, nodes, o, w))

DeactivateElement ==
    \E id \in ToggleIds :
        Call(<<"deactivateElement", id>>, deactivateElement(graph, nodes, id))

ActivateElement ==
    \E id \in ToggleIds :
        Call(<<"activateElement", id>>, activateElement(graph, nodes, id))

AddDataFromSerializableGraph ==
    \E data \in Snapshots :
        Call(<<"addDataFromSerializableGraph", data>>,
             addDataFromSerializableGraph(graph, nodes, data))

OnUpdate ==
    \E callback \in Callbacks :
        /\ steps < MaxSteps
        /\ Len(updateCallbacks) < MaxCallbacks
        /\ updateCallbacks' = Append(updateCallbacks, callback)
        /\ notified' = <<>>
        /\ lastOp' = <<"onUpdate", callback>>
        /\ twice' = FALSE
        /\ steps' = steps + 1
        /\ observed' = <<graph, nodes>>
        /\ returned' = <<>>
        /\ UNCHANGED <<graph, nodes, dest>>

Next ==
    \/ AddObject
    \/ AddFrame
    \/ AddNode
    \/ AddRotateX
    \/ RemoveElementAndChildren
    \/ RecomputeGraph
    \/ GetDistanceBetween
    \/ UpdateWithPositionData
    \/ UpdateObjectWorldId
    \/ DeactivateElement
    \/ ActivateElement
    \/ AddDataFromSerializableGraph
    \/ OnUpdate

Spec == Init /\ [][Next]_vars

\* A snapshot of this graph reaches a peer: getSerializableCopy() here, then
\* addDataFromSerializableGraph() into the peer's freshly constructed graph.
SendSnapshot ==
    LET r == getSerializableCopy(graph, nodes)
        d == addDataFromSerializableGraph(NewSceneGraph.graph, NewSceneGraph.nodes, r.copy)
    IN /\ steps < MaxSteps
       /\ graph' = r.graph
       /\ nodes' = r.nodes
       /\ dest' = [graph |-> d.graph, nodes |-> d.nodes]
       /\ notified' = <<>>
       /\ lastOp' = <<"sendSnapshot">>
       /\ twice' = FALSE
       /\ steps' = steps + 1
       /\ observed' = <<r.graph, r.nodes>>
       /\ returned' = <<r.copy>>
       /\ UNCHANGED updateCallbacks

\* Graphs built by add operations only, and their snapshots sent to a peer.
NextAdds ==
    \/ AddObject
    \/ AddFrame
    \/ AddNode
    \/ SendSnapshot

SpecRoundTrip == Init /\ [][NextAdds]_vars

\* --------------------------------------------------- derived vocabulary
RegNodes(g) == {g[k] : k \in DOMAIN g}

\* The proper ancestors of n along parent pointers (n itself when n lies on
\* a cycle of parent pointers).
RECURSIVE Anc(_, _, _)
Anc(ns, n, seen) ==
    LET p == ns[n].parent
    IN IF p = NoRef \/ p \in seen THEN seen ELSE Anc(ns, p, seen \cup {p})
Ancestors(ns, n) == Anc(ns, n, {})

\* The nodes the root reaches through children lists.
Reachable(ns) == Subtree(ns, rootNode)

\* What a call can change of a node besides transform freshness.
Shape(ns) ==
    [k \in DOMAIN ns |->
        [parent |-> ns[k].parent, children |-> ns[k].children,
         localMatrix |-> ns[k].localMatrix, deactivated |-> ns[k].deactivated,
         needsRotateX |-> ns[k].needsRotateX, linkedVehicle |-> ns[k].linkedVehicle]]

\* ----------------------------------------------------------------- C1
\* C1: the parent relation over the nodes of the registry is acyclic: no
\* node met while following parent pointers from a registered node is its
\* own ancestor.
C1_ParentsAcyclic ==
    \A n \in RegNodes(graph) :
        \A k \in {n} \cup Ancestors(nodes, n) : k \notin Ancestors(nodes, k)

\* ----------------------------------------------------------------- C2
\* C2: for every two registered nodes n and p, n is in p.children exactly
\* when n.parent is p.
C2_ParentChildrenSymmetry ==
    \A n \in RegNodes(graph), p \in RegNodes(graph) :
        (n \in Range(nodes[p].children)) <=> (nodes[n].parent = p)

\* ----------------------------------------------------------------- C3
\* C3: the registry always maps ROOT to rootNode, and rootNode has no
\* parent.
C3_RootAlwaysPresent ==
    /\ ROOT \in DOMAIN graph
    /\ graph[ROOT] = rootNode
    /\ nodes[rootNode].parent = NoRef

\* ----------------------------------------------------------------- C4
\* The product of the local matrices on the chain of parent pointers from
\* the top ancestor down to n, in that order (fuel bounds the walk).
RECURSIVE ChainProduct(_, _, _)
ChainProduct(ns, n, fuel) ==
    IF ns[n].parent = NoRef \/ fuel = 0 THEN ns[n].localMatrix
    ELSE Multiply(ChainProduct(ns, ns[n].parent, fuel - 1), ns[n].localMatrix)

WorldMatricesCurrent(ns) ==
    \A n \in Reachable(ns) : ns[n].worldMatrix = ChainProduct(ns, n, Len(ns))

\* C4: right after recomputeGraph(), the world matrix of every node reachable
\* from root is the product of the local matrices along its ancestor chain,
\* in root-to-node order.
C4_RecomputeMakesWorldCurrent ==
    lastOp = <<"recomputeGraph">> => WorldMatricesCurrent(nodes)

\* ----------------------------------------------------------------- C5
PublicMutators ==
    {"addObject", "addFrame", "addNode", "removeElementAndChildren",
     "updateWithPositionData", "deactivateElement", "activateElement",
     "updateObjectWorldId", "addDataFromSerializableGraph"}

\* The registry, a parent/children relationship, a local matrix or a
\* deactivated flag differs between the two graph values.
Mutated(g1, ns1, g2, ns2) ==
    \/ g1 # g2
    \/ Len(ns1) # Len(ns2)
    \/ \E k \in DOMAIN ns1 :
        \/ ns1[k].parent # ns2[k].parent
        \/ ns1[k].children # ns2[k].children
        \/ ns1[k].localMatrix # ns2[k].localMatrix
        \/ ns1[k].deactivated # ns2[k].deactivated

\* C5: a public operation that changes the registry, a parent/children
\* relationship, a local matrix or a deactivated flag invokes every
\* registered callback at least once.
C5_EveryMutationNotifies ==
    [][(lastOp'[1] \in PublicMutators /\ Mutated(graph, nodes, graph', nodes'))
        => Range(updateCallbacks) \subseteq Range(notified')]_vars

\* ----------------------------------------------------------------- C6
\* removeElementAndChildren(id) took the node n registered under id from
\* graph value 1 to graph value 2 as the claim says: n is out of its
\* parent's children and out of the registry, the root does not reach n,
\* and every descendant of n is still registered and out of the root's reach.
RemovedAsDocumented(g1, ns1, id, g2, ns2) ==
    LET n == g1[id]
        descendants == Subtree(ns1, n) \ {n}
    IN /\ id \notin DOMAIN g2
       /\ ns1[n].parent # NoRef => n \notin Range(ns2[ns1[n].parent].children)
       /\ n \notin Reachable(ns2)
       /\ \A d \in descendants : d \in RegNodes(g2) /\ d \notin Reachable(ns2)

\* C6: removeElementAndChildren(id) on a registered id removes the node from
\* its parent's children and from the registry, leaves it unreachable from
\* root, and leaves its descendants registered and unreachable from root.
C6_RemoveDetachesAndOrphans ==
    [][(lastOp'[1] = "removeElementAndChildren" /\ lastOp'[2] \in DOMAIN graph)
        => RemovedAsDocumented(graph, nodes, lastOp'[2], graph', nodes')]_vars

\* ----------------------------------------------------------------- C7
\* The call named by op is addressed to an id the registry g does not hold.
AddressedToUnknownId(op, g) ==
    \/ /\ op[1] \in {"removeElementAndChildren", "deactivateElement", "activateElement"}
       /\ op[2] \notin DOMAIN g
    \/ /\ op[1] = "updateWithPositionData"
       /\ getUuid(op[2][1], op[2][2], op[2][3]) \notin DOMAIN g
    \/ /\ op[1] = "updateObjectWorldId"
       /\ (op[2] \notin DOMAIN g \/ op[3] \notin DOMAIN g)

\* C7: a mutation addressed to an id that is not in the registry changes
\* neither the registry nor any node and invokes no callback.
C7_UnknownIdIsSilentNoOp ==
    [][AddressedToUnknownId(lastOp', graph)
        => graph' = graph /\ nodes' = nodes /\ notified' = <<>>]_vars

\* A callback is registered, and the last call, a removal or a position
\* update, invoked none: the call was addressed to an unknown id.
C7_Witness ==
    /\ updateCallbacks # <<>>
    /\ lastOp[1] \in {"removeElementAndChildren", "updateWithPositionData"}
    /\ notified = <<>>

\* ----------------------------------------------------------------- C8
\* The deactivated flag of the node registered under id differs between the
\* two graph values.
FlagChanged(g1, ns1, id, ns2) ==
    id \in DOMAIN g1 /\ ns1[g1[id]].deactivated # ns2[g1[id]].deactivated

\* C8: a deactivateElement/activateElement call that changes a node's flag
\* invokes each registered callback exactly once, in order; a call that
\* leaves the flag as it was invokes none and changes nothing, so the second
\* of two equal calls in a row is silent.
C8_ToggleNotifiesOncePerChange ==
    [][lastOp'[1] \in {"deactivateElement", "activateElement"}
        => IF FlagChanged(graph, nodes, lastOp'[2], nodes')
           THEN notified' = updateCallbacks /\ ~twice'
           ELSE notified' = <<>> /\ nodes' = nodes /\ graph' = graph]_vars

\* deactivateElement was called twice in a row on a registered id while a
\* callback was registered; the second call invoked nothing.
C8_Witness ==
    /\ twice
    /\ lastOp[1] = "deactivateElement"
    /\ lastOp[2] \in DOMAIN graph
    /\ nodes[graph[lastOp[2]]].deactivated
    /\ updateCallbacks # <<>>
    /\ notified = <<>>

\* ----------------------------------------------------------------- C9
\* C9: the second of two equal addObject/addFrame/addNode calls in a row
\* leaves the registry, every parent, every children list, every local
\* matrix and every flag as the first call left them.
C9_AddIsIdempotent ==
    [][(twice' /\ lastOp'[1] \in {"addObject", "addFrame", "addNode"})
        => graph' = graph /\ Shape(nodes') = Shape(nodes)]_vars

\* An add operation was called twice in a row on a graph that holds nodes
\* besides the root.
C9_Witness ==
    /\ twice
    /\ lastOp[1] \in {"addObject", "addFrame", "addNode"}
    /\ Len(nodes[rootNode].children) >= 2

\* ---------------------------------------------------------------- C10
\* The two graph values hold the same ids, and under every id a node with
\* the same parent id, the same list of children ids and the same local
\* matrix.
Isomorphic(g1, ns1, g2, ns2) ==
    /\ DOMAIN g1 = DOMAIN g2
    /\ \A id \in DOMAIN g1 :
        LET a == nodeSerializableCopy(ns1, g1[id])
            b == nodeSerializableCopy(ns2, g2[id])
        IN /\ a.parent = b.parent
           /\ a.children = b.children
           /\ a.localMatrix = b.localMatrix

\* C10: for a graph built by add operations, getSerializableCopy() followed
\* by addDataFromSerializableGraph() into a freshly constructed graph yields
\* the same ids, parents, children lists (root's included) and local matrices.
C10_RoundTripIsomorphic ==
    lastOp = <<"sendSnapshot">> => Isomorphic(graph, nodes, dest.graph, dest.nodes)

\* ---------------------------------------------------------------- C11
\* The node registered under id in graph value 1 is registered under id in
\* graph value 2 with the same local matrix, parent, children list, flags
\* and payload.
Untouched(g1, ns1, id, g2, ns2) ==
    /\ id \in DOMAIN g2
    /\ g2[id] = g1[id]
    /\ Shape(ns2)[g1[id]] = Shape(ns1)[g1[id]]

\* C11: addDataFromSerializableGraph(data) leaves every node whose id was
\* registered before the call as it was, whatever data holds for that id or
\* for ids that name it as parent or child.
C11_ImportLeavesLocalNodes ==
    [][lastOp'[1] = "addDataFromSerializableGraph"
        => \A id \in DOMAIN graph : Untouched(graph, nodes, id, graph', nodes')]_vars

\* A snapshot was imported that holds a record for "A" with needsRotateX set
\* and a correction node naming the frame "AF" as its child, while the local
\* "A" has no correction and the local "AF" has no parent.
C11_Witness ==
    /\ lastOp[1] = "addDataFromSerializableGraph"
    /\ "A" \in DOMAIN lastOp[2] /\ lastOp[2]["A"].needsRotateX
    /\ {"A", "AF", "ArotateX"} \subseteq DOMAIN graph
    /\ ~nodes[graph["A"]].needsRotateX
    /\ nodes[graph["AF"]].parent = NoRef
    /\ graph["AF"] \in Range(nodes[graph["ArotateX"]].children)

\* ---------------------------------------------------------------- C12
\* addFrame(objectId, frameId, ...) took graph value 1 to graph value 2 and
\* left the frame node where the claim says: under the object's correction
\* node, under the object node, or (a frame node created while the object
\* is not registered) under no parent and in no children list.
FrameParentedAsDocumented(g1, ns1, objectId, frameId, g2, ns2) ==
    LET objectUuid == getUuid(objectId, Undefined, Undefined)
        uuid == getUuid(objectId, frameId, Undefined)
        correction == Lookup(g1, RotateXId(objectUuid))
    IN /\ uuid \in DOMAIN g2
       /\ IF objectUuid \in DOMAIN g1
          THEN IF ns1[g1[objectUuid]].needsRotateX
               THEN /\ correction # NoRef
                    /\ ns2[correction].id = RotateXId(objectUuid)
                    /\ ns2[g2[uuid]].parent = correction
                    /\ g2[uuid] \in Range(ns2[correction].children)
               ELSE /\ ns2[g2[uuid]].parent = g1[objectUuid]
                    /\ g2[uuid] \in Range(ns2[g1[objectUuid]].children)
          ELSE uuid \notin DOMAIN g1
               => /\ ns2[g2[uuid]].parent = NoRef
                  /\ \A k \in DOMAIN ns2 : g2[uuid] \notin Range(ns2[k].children)

\* C12: addFrame parents the frame node under the object's correction child
\* when the object is registered with needsRotateX, under the object node
\* when it is registered without, and creates it parentless, in no children
\* list, when the object is not registered.
C12_AddFrameParenting ==
    [][lastOp'[1] = "addFrame"
        => FrameParentedAsDocumented(graph, nodes, lastOp'[2][1], lastOp'[2][2],
                                     graph', nodes')]_vars

\* ---------------------------------------------------------------- C13
\* C13: getDistanceBetween(keyA, keyB) returns -1 when keyA or keyB is not
\* registered and a value that is not negative when both are, orphaned nodes
\* included.  (getDistanceBetween does not change the registry.)
C13_DistanceSentinel ==
    lastOp[1] = "getDistanceBetween"
    => /\ Len(returned) = 1
       /\ IF lastOp[2] \in DOMAIN graph /\ lastOp[3] \in DOMAIN graph
          THEN returned[1] >= 0
          ELSE returned[1] = -1

\* The distance was asked between the object "A" and its frame "AF" after
\* "A" was removed: the frame is an orphan and "A" is unknown.
C13_Witness ==
    /\ lastOp[1] = "getDistanceBetween"
    /\ "AF" \in {lastOp[2], lastOp[3]}
    /\ "AF" \in DOMAIN graph
    /\ "A" \notin DOMAIN graph
    /\ nodes[graph["AF"]].parent # NoRef
    /\ returned = <<-1>>

\* The distance was asked between two registered nodes, one an orphan whose
\* parent is no longer registered.
C13_WitnessRegistered ==
    /\ lastOp[1] = "getDistanceBetween"
    /\ lastOp[2] \in DOMAIN graph /\ lastOp[3] \in DOMAIN graph
    /\ returned[1] >= 0

\* ---------------------------------------------------------------- C14
\* C14: recomputeGraph() leaves the registry, every parent, children list,
\* local matrix and flag as they were and invokes no callback; a second
\* recomputeGraph() right after the first changes no world matrix and no
\* staleness flag.
C14_RecomputeOnlyRefreshes ==
    [][lastOp'[1] = "recomputeGraph"
        => /\ graph' = graph
           /\ Shape(nodes') = Shape(nodes)
           /\ notified' = <<>>
           /\ twice' => nodes' = nodes]_vars

\* recomputeGraph() was called twice in a row, with a callback registered,
\* on a graph whose root has a child.
C14_Witness ==
    /\ twice
    /\ lastOp[1] = "recomputeGraph"
    /\ updateCallbacks # <<>>
    /\ nodes[rootNode].children # <<>>

\* ---------------------------------------------------------------- C15
\* C15: updateObjectWorldId(objectId, worldId) with two paths that resolve to
\* the same node changes no parent and no children list, so no node becomes
\* its own parent.
C15_SelfReparentIsNoOp ==
    [][(/\ lastOp'[1] = "updateObjectWorldId"
        /\ lastOp'[2] \in DOMAIN graph
        /\ Lookup(graph, getUuid(lastOp'[2], Undefined, Undefined))
             = Lookup(graph, getUuid(lastOp'[3], Undefined, Undefined)))
        => /\ graph' = graph
           /\ Shape(nodes') = Shape(nodes)
           /\ \A k \in DOMAIN nodes' : nodes'[k].parent # k]_vars

\* updateObjectWorldId was called with the same registered object as object
\* and as world.
C15_Witness ==
    /\ lastOp[1] = "updateObjectWorldId"
    /\ lastOp[2] = lastOp[3]
    /\ lastOp[2] \in DOMAIN graph
    /\ nodes[graph[lastOp[2]]].parent = rootNode

\* ---------------------------------------------------------------- C16
\* C16: the parent of every registered node is absent or a node registered
\* under its own id, and every entry of a registered node's children list is
\* a registered node.
C16_NoDanglingReferences ==
    \A n \in RegNodes(graph) :
        /\ nodes[n].parent # NoRef
            => Lookup(graph, nodes[nodes[n].parent].id) = nodes[n].parent
        /\ \A c \in Range(nodes[n].children) : c \in RegNodes(graph)

\* ---------------------------------------------------------------- C17
\* C17: every registered node with needsRotateX set has its correction node
\* (id = node id + 'rotateX') registered, with that node as parent.
C17_CorrectionNodePresent ==
    \A id \in DOMAIN graph :
        nodes[graph[id]].needsRotateX
        => /\ RotateXId(id) \in DOMAIN graph
           /\ nodes[graph[RotateXId(id)]].parent = graph[id]

\* ---------------------------------------------------------------- C18
\* The registered frame nodes of object o.
FramesOf(g, o) ==
    {g[getUuid(p[1], p[2], Undefined)] :
        p \in {q \in FramePaths : q[1] = o /\ getUuid(q[1], q[2], Undefined) \in DOMAIN g}}

\* C18: for a registered object with needsRotateX set, the only direct child
\* of the object node is its correction node, and every frame node of the
\* object that has a parent is a child of the correction node.
C18_CorrectionCoversDescendants ==
    \A o \in ObjectIds \cap DOMAIN graph :
        nodes[graph[o]].needsRotateX
        => LET correction == Lookup(graph, RotateXId(o))
           IN /\ Range(nodes[graph[o]].children) \subseteq {correction}
              /\ \A f \in FramesOf(graph, o) :
                    nodes[f].parent # NoRef => nodes[f].parent = correction

\* ---------------------------------------------------------------- C19
\* C19: a frame node that addFrame left parentless because its object was not
\* registered is, right after a later addObject for that object, a child of
\* the object node or of its correction node, and reachable from root.
C19_AddObjectAdoptsFrames ==
    [][lastOp'[1] = "addObject"
        => \A p \in FramePaths :
            LET o == getUuid(p[1], Undefined, Undefined)
                uuid == getUuid(p[1], p[2], Undefined)
            IN (/\ p[1] = lastOp'[2]
                /\ o \notin DOMAIN graph
                /\ uuid \in DOMAIN graph
                /\ nodes[graph[uuid]].parent = NoRef)
               => /\ nodes'[graph'[uuid]].parent
                        \in {graph'[o], Lookup(graph', RotateXId(o))} \ {NoRef}
                  /\ graph'[uuid] \in Reachable(nodes')]_vars

\* ---------------------------------------------------------------- C20
\* The operations C20 is about.
NotifyingAdds == {"addObject", "addFrame", "addNode"}

\* The call just made is one of them, or an updateWithPositionData whose
\* most specific id was registered when it was called.
NotifyingCall ==
    \/ lastOp'[1] \in NotifyingAdds
    \/ /\ lastOp'[1] = "updateWithPositionData"
       /\ getUuid(lastOp'[2][1], lastOp'[2][2], lastOp'[2][3]) \in DOMAIN graph

\* C20: each call of addObject (with or without correction), addFrame,
\* addNode or updateWithPositionData on a registered id invokes the
\* registered callbacks once each, in registration order (the invocations of
\* the call are exactly the sequence updateCallbacks), and the callbacks see
\* the registry and nodes as the call leaves them.
C20_NotifiesOnceInOrderAfterChanges ==
    [][NotifyingCall
        => /\ notified' = updateCallbacks
           /\ observed' = <<graph', nodes'>>]_vars

\* addObject with correction has just run with two different callbacks
\* registered, creating the object and its correction node.
C20_Witness ==
    /\ lastOp[1] = "addObject"
    /\ lastOp[3][2]
    /\ Len(updateCallbacks) = 2
    /\ updateCallbacks[1] # updateCallbacks[2]
    /\ notified = updateCallbacks
    /\ RotateXId(lastOp[2]) \in DOMAIN graph
    /\ observed = <<graph, nodes>>

====
